---- MODULE Spec2Model ----
(***************************************************************************)
(* Model of upscayl-service.py: the two POST handlers process_image        *)
(* (/process) and upscale_image (/upscale), the two operations run_upscayl *)
(* and remove_background, and the temp directory they share.               *)
(*                                                                         *)
(* Several requests are handled concurrently.  A handler is cut into steps *)
(* at the points where it touches the temp directory, so that the steps of *)
(* different requests interleave arbitrarily.                              *)
(***************************************************************************)
EXTENDS Integers, Sequences, FiniteSets, TLC

\* Number of requests that are in flight together.
NumReq == 2
Req == 1..NumReq

\* request.form.get('scale', 4)
DEFAULT_SCALE == 4

Routes == {"process", "upscale"}
\* The upload field of the multipart form: missing, present with filename '',
\* present with bytes PIL cannot decode, present with a decodable image.
Uploads == {"absent", "empty", "undecodable", "valid"}
\* The form field `action`, "absent" when the form has none.
ActionFields == {"absent", "upscale", "remove_bg", "invalid"}
\* The form field `scale`, "absent" when the form has none.
ScaleFields == {"absent", "4", "abc"}
\* How the upscayl-bin subprocess ends.
Exits == {"zero", "nonzero", "timeout"}
\* How rembg's remove ends inside remove_background.
BgResults == {"ok", "exception"}

VARIABLES
    pc,        \* pc[r]: position of the handler of request r
    route,     \* route[r]: the URL the request was posted to
    upload,    \* upload[r]: request.files[<field>]
    action,    \* action[r]: request.form.get('action', 'upscale')
    scale,     \* scale[r]: int(request.form.get('scale', 4)); ok = FALSE for ValueError
    uid,       \* uid[r]: unique_id, 0 while output_path is not in locals()
    success,   \* success[r]: the local `success`
    outcome,   \* outcome[r]: how the operation ended, NotRun if it never ran
    raised,    \* raised[r]: the exception caught by `except Exception`
    resp,      \* resp[r]: the response the handler returns
    log,       \* log[r]: the temp-file accesses and events of request r, in order
    fs,        \* the paths that exist in TEMP_DIR
    issued,    \* how many identifiers uuid4 has handed out
    rembg      \* FALSE when `remove is None` (rembg failed to import)

vars == <<pc, route, upload, action, scale, uid, success, outcome, raised,
          resp, log, fs, issued, rembg>>

NoResp == [code |-> 0, mimetype |-> "none"]
\* outcome[r] is <<how the operation ended, whether it wrote output_path>>
NotRun == <<"none", FALSE>>

----------------------------------------------------------------------------
\* Pure helpers

\* dict.get(key, default) of werkzeug's form
FormGet(field, default) == IF field = "absent" THEN default ELSE field

\* int(x) on a form value: the integer, or ok = FALSE when int raises ValueError
ParseInt(x) ==
    IF x = "4" THEN [ok |-> TRUE, val |-> 4] ELSE [ok |-> FALSE, val |-> 0]

\* int(request.form.get('scale', 4))
ScaleArg(field) ==
    IF field = "absent" THEN [ok |-> TRUE, val |-> DEFAULT_SCALE] ELSE ParseInt(field)

\* Variant: the presence check is missing
HasUploadFieldAlways(up) == TRUE
\* 'image' in request.files / 'file' in request.files
HasUploadField(up) == up # "absent"

\* Variant: the filename check is missing
EmptyFilenameNever(up) == FALSE
\* file.filename == ''
EmptyFilename(up) == up = "empty"

\* uuid.uuid4(): an identifier no earlier call returned
Uuid4(n) == n + 1

\* os.path.join(TEMP_DIR, f"input_{unique_id}.png")
InputPath(id) == <<"input", id>>

\* Variant: the output path repeats the input path's prefix
OutputPathSameAsInput(id) == <<"input", id>>
\* os.path.join(TEMP_DIR, f"output_{unique_id}.png")
OutputPath(id) == <<"output", id>>

\* jsonify(...), code  and  send_file(..., mimetype='image/png')
JsonError(code) == [code |-> code, mimetype |-> "application/json"]
SendFile == [code |-> 200, mimetype |-> "image/png"]

\* Variant: result.returncode is not looked at
RunUpscaylIgnoresReturnCode(exit, outExists) ==
    IF exit = "timeout" THEN FALSE ELSE outExists
\* run_upscayl's return value, from how the subprocess ended and whether
\* output_path exists afterwards
RunUpscaylReturn(exit, outExists) ==
    IF exit = "timeout" THEN FALSE
    ELSE IF exit # "zero" THEN FALSE
    ELSE outExists

\* if not success or not os.path.exists(output_path)
Failed(succ, outExists) == ~succ \/ ~outExists

\* Variant: every action but remove_bg falls into the upscale branch
BranchUnknownAsUpscale(a) ==
    IF a = "remove_bg" THEN "remove_bg" ELSE "upscale"
\* The branch of process_image's if/elif/else on `action`
Branch(a) ==
    IF a = "upscale" THEN "upscale"
    ELSE IF a = "remove_bg" THEN "remove_bg"
    ELSE "invalid"

Entry(ev, path) == [ev |-> ev, path |-> path]

----------------------------------------------------------------------------
Init ==
    /\ pc = [r \in Req |-> "idle"]
    /\ route = [r \in Req |-> "none"]
    /\ upload = [r \in Req |-> "none"]
    /\ action = [r \in Req |-> "none"]
    /\ scale = [r \in Req |-> [ok |-> TRUE, val |-> 0]]
    /\ uid = [r \in Req |-> 0]
    /\ success = [r \in Req |-> FALSE]
    /\ outcome = [r \in Req |-> NotRun]
    /\ raised = [r \in Req |-> "none"]
    /\ resp = [r \in Req |-> NoResp]
    /\ log = [r \in Req |-> <<>>]
    /\ fs = {}
    /\ issued = 0
    /\ rembg \in BOOLEAN

----------------------------------------------------------------------------
\* Fragments shared by the two handlers

\* `return response` from inside the try block: control passes to `finally`
Return(r, response) ==
    /\ resp' = [resp EXCEPT ![r] = response]
    /\ pc' = [pc EXCEPT ![r] = "finally"]
    /\ raised' = raised

\* except Exception as e: return jsonify({'error': 'Internal server error'}), 500
Except(r, e) ==
    /\ resp' = [resp EXCEPT ![r] = JsonError(500)]
    /\ pc' = [pc EXCEPT ![r] = "finally"]
    /\ raised' = [raised EXCEPT ![r] = e]

\* unique_id = str(uuid.uuid4()); input_path = ...; output_path = ...
NewPaths(r) ==
    /\ uid' = [uid EXCEPT ![r] = Uuid4(issued)]
    /\ issued' = issued + 1

\* The request arrives: its route and its form are fixed from here on.
\* Requests are numbered in the order in which their handlers start.
Arrive(r, rt, up, af, sf) ==
    /\ pc[r] = "idle"
    /\ \A q \in Req : q < r => pc[q] # "idle"
    /\ route' = [route EXCEPT ![r] = rt]
    /\ upload' = [upload EXCEPT ![r] = up]
    /\ action' = [action EXCEPT ![r] = FormGet(af, "upscale")]
    /\ scale' = [scale EXCEPT ![r] = ScaleArg(sf)]

\* image = Image.open(file.stream); image.save(input_path, 'PNG')
SaveUpload(r) ==
    /\ pc[r] = "save"
    /\ IF upload[r] = "undecodable"
       THEN /\ Except(r, "UnidentifiedImageError")
            /\ UNCHANGED <<fs, log>>
       ELSE /\ fs' = fs \cup {InputPath(uid[r])}
            /\ log' = [log EXCEPT ![r] = Append(@, Entry("write", InputPath(uid[r])))]
            /\ pc' = [pc EXCEPT ![r] = "dispatch"]
            /\ UNCHANGED <<resp, raised>>
    /\ UNCHANGED <<route, upload, action, scale, uid, success, outcome, issued, rembg>>

\* success = run_upscayl(input_path, output_path, scale)
RunUpscayl(r) ==
    \E exit \in Exits, wrote \in BOOLEAN :
        /\ fs' = IF wrote THEN fs \cup {OutputPath(uid[r])} ELSE fs
        /\ success' = [success EXCEPT ![r] = RunUpscaylReturn(exit, OutputPath(uid[r]) \in fs')]
        /\ outcome' = [outcome EXCEPT ![r] = <<exit, wrote>>]
        /\ log' = [log EXCEPT ![r] = @ \o
                     <<Entry("run_upscayl", InputPath(uid[r]))>> \o
                     (IF wrote THEN <<Entry("write", OutputPath(uid[r]))>> ELSE <<>>)]
        /\ pc' = [pc EXCEPT ![r] = "rminput"]
        /\ UNCHANGED <<resp, raised>>

\* success = remove_background(input_path, output_path)
RemoveBackground(r) ==
    IF ~rembg
    THEN /\ success' = [success EXCEPT ![r] = FALSE]
         /\ outcome' = [outcome EXCEPT ![r] = <<"unavailable", FALSE>>]
         /\ log' = [log EXCEPT ![r] = Append(@, Entry("remove_background", InputPath(uid[r])))]
         /\ pc' = [pc EXCEPT ![r] = "rminput"]
         /\ UNCHANGED <<fs, resp, raised>>
    ELSE \E res \in BgResults, wrote \in BOOLEAN :
         /\ res = "ok" => wrote
         /\ fs' = IF wrote THEN fs \cup {OutputPath(uid[r])} ELSE fs
         /\ success' = [success EXCEPT ![r] = (res = "ok")]
         /\ outcome' = [outcome EXCEPT ![r] = <<res, wrote>>]
         /\ log' = [log EXCEPT ![r] = @ \o
                      <<Entry("remove_background", InputPath(uid[r]))>> \o
                      (IF wrote THEN <<Entry("write", OutputPath(uid[r]))>> ELSE <<>>)]
         /\ pc' = [pc EXCEPT ![r] = "rminput"]
         /\ UNCHANGED <<resp, raised>>

\* if os.path.exists(input_path): os.remove(input_path)
CleanInput(r) ==
    /\ pc[r] = "rminput"
    /\ IF InputPath(uid[r]) \in fs
       THEN /\ fs' = fs \ {InputPath(uid[r])}
            /\ log' = [log EXCEPT ![r] = Append(@, Entry("remove", InputPath(uid[r])))]
       ELSE UNCHANGED <<fs, log>>
    /\ pc' = [pc EXCEPT ![r] = "check"]
    /\ UNCHANGED <<route, upload, action, scale, uid, success, outcome, raised,
                   resp, issued, rembg>>

\* The same statement when os.remove raises OSError: the handler's
\* `except Exception` catches it
CleanInputRaises(r) ==
    /\ pc[r] = "rminput"
    /\ InputPath(uid[r]) \in fs
    /\ Except(r, "OSError")
    /\ UNCHANGED <<route, upload, action, scale, uid, success, outcome,
                   log, fs, issued, rembg>>

\* if not success or not os.path.exists(output_path): return ..., 500
\* return send_file(output_path, mimetype='image/png', ...)
CheckResult(r) ==
    /\ pc[r] = "check"
    /\ IF Failed(success[r], OutputPath(uid[r]) \in fs)
       THEN /\ Return(r, JsonError(500))
            /\ log' = log
       ELSE /\ Return(r, SendFile)
            /\ log' = [log EXCEPT ![r] = Append(@, Entry("open", OutputPath(uid[r])))]
    /\ UNCHANGED <<route, upload, action, scale, uid, success, outcome, fs, issued, rembg>>

\* Variant: the finally block does not remove output_path
FinallyKeepsOutput(r) ==
    /\ pc[r] = "finally"
    /\ pc' = [pc EXCEPT ![r] = "returned"]
    /\ UNCHANGED <<route, upload, action, scale, uid, success, outcome, raised,
                   resp, log, fs, issued, rembg>>
\* finally: if 'output_path' in locals() and os.path.exists(output_path):
\*              try: os.remove(output_path)  except: pass
\* The handler returns its response to Flask when this block ends.
Finally(r) ==
    /\ pc[r] = "finally"
    /\ IF uid[r] # 0 /\ OutputPath(uid[r]) \in fs
       THEN /\ fs' = fs \ {OutputPath(uid[r])}
            /\ log' = [log EXCEPT ![r] = Append(@, Entry("remove", OutputPath(uid[r])))]
       ELSE UNCHANGED <<fs, log>>
    /\ pc' = [pc EXCEPT ![r] = "returned"]
    /\ UNCHANGED <<route, upload, action, scale, uid, success, outcome, raised,
                   resp, issued, rembg>>

\* The same block when os.remove raises: `except: pass` swallows the error
FinallyRemoveRaises(r) ==
    /\ pc[r] = "finally"
    /\ uid[r] # 0
    /\ OutputPath(uid[r]) \in fs
    /\ pc' = [pc EXCEPT ![r] = "returned"]
    /\ UNCHANGED <<route, upload, action, scale, uid, success, outcome, raised,
                   resp, log, fs, issued, rembg>>

\* Flask sends the response the view function returned; a send_file response
\* streams its body from the file handle send_file opened
Transmit(r) ==
    /\ pc[r] = "returned"
    /\ log' = [log EXCEPT ![r] = IF resp[r].code = 200
                                 THEN Append(@, Entry("sent", OutputPath(uid[r])))
                                 ELSE @]
    /\ pc' = [pc EXCEPT ![r] = "done"]
    /\ UNCHANGED <<route, upload, action, scale, uid, success, outcome, raised,
                   resp, fs, issued, rembg>>

----------------------------------------------------------------------------
\* POST /process

\* process_image up to the generation of the file names
ProcessBegin(r) ==
    \E up \in Uploads, af \in ActionFields, sf \in ScaleFields :
        /\ Arrive(r, "process", up, af, sf)
        /\ IF ~HasUploadField(up)
           THEN Return(r, JsonError(400)) /\ UNCHANGED <<uid, issued>>
           ELSE IF EmptyFilename(up)
           THEN Return(r, JsonError(400)) /\ UNCHANGED <<uid, issued>>
           ELSE /\ NewPaths(r)
                /\ pc' = [pc EXCEPT ![r] = "save"]
                /\ UNCHANGED <<resp, raised>>
        /\ UNCHANGED <<success, outcome, log, fs, rembg>>

\* process_image's dispatch on `action`
ProcessDispatch(r) ==
    /\ pc[r] = "dispatch"
    /\ route[r] = "process"
    /\ CASE Branch(action[r]) = "upscale" ->
              IF ~scale[r].ok
              THEN Except(r, "ValueError") /\ UNCHANGED <<success, outcome, log, fs>>
              ELSE RunUpscayl(r)
         [] Branch(action[r]) = "remove_bg" -> RemoveBackground(r)
         [] OTHER -> Return(r, JsonError(400)) /\ UNCHANGED <<success, outcome, log, fs>>
    /\ UNCHANGED <<route, upload, action, scale, uid, issued, rembg>>

----------------------------------------------------------------------------
\* POST /upscale

\* upscale_image up to the generation of the file names
UpscaleBegin(r) ==
    \E up \in Uploads, sf \in ScaleFields :
        /\ Arrive(r, "upscale", up, "upscale", sf)
        /\ IF ~HasUploadField(up)
           THEN Return(r, JsonError(400)) /\ UNCHANGED <<uid, issued>>
           ELSE IF EmptyFilename(up)
           THEN Return(r, JsonError(400)) /\ UNCHANGED <<uid, issued>>
           ELSE IF ~ScaleArg(sf).ok
           THEN Except(r, "ValueError") /\ UNCHANGED <<uid, issued>>
           ELSE /\ NewPaths(r)
                /\ pc' = [pc EXCEPT ![r] = "save"]
                /\ UNCHANGED <<resp, raised>>
        /\ UNCHANGED <<success, outcome, log, fs, rembg>>

\* upscale_image's call of run_upscayl
UpscaleDispatch(r) ==
    /\ pc[r] = "dispatch"
    /\ route[r] = "upscale"
    /\ RunUpscayl(r)
    /\ UNCHANGED <<route, upload, action, scale, uid, issued, rembg>>

----------------------------------------------------------------------------
Next ==
    \E r \in Req :
        \/ ProcessBegin(r)
        \/ UpscaleBegin(r)
        \/ SaveUpload(r)
        \/ ProcessDispatch(r)
        \/ UpscaleDispatch(r)
        \/ CleanInput(r)
        \/ CheckResult(r)
        \/ Finally(r)
        \/ Transmit(r)

Spec == Init /\ [][Next]_vars

\* The same service on a file system where a delete can fail
NextFaulty ==
    \/ Next
    \/ \E r \in Req : CleanInputRaises(r)
    \/ \E r \in Req : FinallyRemoveRaises(r)

SpecFaulty == Init /\ [][NextFaulty]_vars

----------------------------------------------------------------------------
\* Vocabulary of the properties

\* The handler of r has run to its end (its finally block included)
Finished(r) == pc[r] \in {"returned", "done"}

Events(r) == {log[r][i] : i \in 1..Len(log[r])}
Did(r, ev, path) == Entry(ev, path) \in Events(r)

\* The operation of r was invoked
Invoked(r) == \E e \in Events(r) : e.ev \in {"run_upscayl", "remove_background"}

\* The upscaler ran for r and ended as a success / as a failure
UpscaylRan(r) == outcome[r][1] \in Exits
UpscaylOk(r) == outcome[r] = <<"zero", TRUE>>
UpscaylFailed(r) == UpscaylRan(r) /\ ~UpscaylOk(r)

\* r is a request for an upscale on /process
ProcessUpscale(r) == route[r] = "process" /\ action[r] = "upscale"

\* The temp files of r that exist, by kind
Remaining(r) ==
    IF uid[r] = 0 THEN {}
    ELSE {k \in {"input", "output"} : <<k, uid[r]>> \in fs}

\* The paths of r
OwnPaths(r) == IF uid[r] = 0 THEN {} ELSE {InputPath(uid[r]), OutputPath(uid[r])}

\* Whether path exists according to the accesses of r alone
RECURSIVE ExistsAfter(_, _)
ExistsAfter(l, path) ==
    IF l = <<>> THEN FALSE
    ELSE LET e == l[Len(l)] IN
         IF e.path = path /\ e.ev = "write" THEN TRUE
         ELSE IF e.path = path /\ e.ev = "remove" THEN FALSE
         ELSE ExistsAfter(SubSeq(l, 1, Len(l) - 1), path)

----------------------------------------------------------------------------
\* C1: once the handler of a request has finished, whatever its outcome,
\* neither its input temp file nor its output temp file exists.
C1_NoOrphanedTempFiles ==
    \A r \in Req : Finished(r) => Remaining(r) = {}

\* C2: on a successful request the output temp file is removed only after
\* the response body has been sent.
C2_OutputRemovedAfterSent ==
    \A r \in Req :
        (resp[r].code = 200 /\ Did(r, "remove", OutputPath(uid[r])))
            => Did(r, "sent", OutputPath(uid[r]))

\* C3: a valid upload to /process with action=upscale whose upscaler exits
\* zero and writes its output file is answered 200 with content type
\* image/png, and afterwards both temp files are absent.
C3_UpscaleSuccess ==
    \A r \in Req :
        (Finished(r) /\ ProcessUpscale(r) /\ upload[r] = "valid" /\ UpscaylOk(r))
            => /\ resp[r] = [code |-> 200, mimetype |-> "image/png"]
               /\ InputPath(uid[r]) \notin fs
               /\ OutputPath(uid[r]) \notin fs

C3_Witness ==
    \E r \in Req :
        /\ pc[r] = "done" /\ ProcessUpscale(r) /\ upload[r] = "valid" /\ UpscaylOk(r)
        /\ resp[r].code = 200
        /\ Did(r, "remove", InputPath(uid[r]))
        /\ Did(r, "remove", OutputPath(uid[r]))

\* C4: when the upscaler exits nonzero, times out, or exits zero without its
\* output file, the request is never answered 200, no output is opened for
\* sending, and once the handler has finished the answer is 500 and no
\* output temp file remains.
C4_UpscaleFailure ==
    \A r \in Req :
        UpscaylFailed(r)
            => /\ resp[r].code # 200
               /\ ~Did(r, "open", OutputPath(uid[r]))
               /\ Finished(r) => /\ resp[r].code = 500
                                 /\ OutputPath(uid[r]) \notin fs

C4_Witness ==
    /\ \E r \in Req :
        /\ pc[r] = "done" /\ route[r] = "process" /\ resp[r].code = 500
        /\ outcome[r] = <<"nonzero", TRUE>>
        /\ Did(r, "remove", OutputPath(uid[r]))
    /\ \E r \in Req :
        /\ pc[r] = "done" /\ route[r] = "upscale" /\ resp[r].code = 500
        /\ outcome[r] \in {<<"timeout", FALSE>>, <<"timeout", TRUE>>, <<"zero", FALSE>>}

\* C5: a request without its upload field, or with an empty filename, is
\* answered 400 without any temp file being named, created or deleted and
\* without any operation being invoked.
C5_MissingUploadRejected ==
    \A r \in Req :
        (pc[r] # "idle" /\ upload[r] \in {"absent", "empty"})
            => /\ resp[r].code = 400
               /\ uid[r] = 0
               /\ log[r] = <<>>
               /\ outcome[r] = NotRun

C5_Witness ==
    /\ \E r \in Req : pc[r] = "done" /\ route[r] = "process" /\ upload[r] = "absent"
                      /\ resp[r].code = 400
    /\ \E r \in Req : pc[r] = "done" /\ route[r] = "upscale" /\ upload[r] = "empty"
                      /\ resp[r].code = 400

\* C6: a request to /process with a valid image and an action other than
\* upscale or remove_bg is answered 400, and neither operation is invoked.
C6_UnknownActionRejected ==
    \A r \in Req :
        (/\ route[r] = "process" /\ upload[r] = "valid"
         /\ action[r] \notin {"upscale", "remove_bg"}
         /\ pc[r] \in {"finally", "returned", "done"})
            => /\ resp[r].code = 400
               /\ ~Invoked(r)
               /\ outcome[r] = NotRun

C6_Witness ==
    \E r \in Req :
        /\ pc[r] = "done" /\ route[r] = "process" /\ upload[r] = "valid"
        /\ action[r] = "invalid" /\ resp[r].code = 400

\* The request's input is missing or invalid
InvalidInput(r) ==
    \/ upload[r] \in {"absent", "empty", "undecodable"}
    \/ route[r] = "process" /\ action[r] \notin {"upscale", "remove_bg"}
    \/ ~scale[r].ok

\* The selected operation was invoked and failed
ProcessingFailed(r) ==
    Invoked(r) /\ (~success[r] \/ ~Did(r, "write", OutputPath(uid[r])))

\* C7, as claimed: missing or invalid input (an undecodable upload included)
\* is answered 400, and 500 is answered only when the operation failed.
C7_InvalidInputIs400 ==
    \A r \in Req :
        Finished(r)
            => /\ (upload[r] \in {"absent", "empty", "undecodable"}) => resp[r].code = 400
               /\ resp[r].code = 500 => ProcessingFailed(r)

\* The inputs the handlers answer with 400
ClientError(r) ==
    \/ upload[r] \in {"absent", "empty"}
    \/ /\ route[r] = "process" /\ upload[r] = "valid"
       /\ action[r] \notin {"upscale", "remove_bg"}

\* The scale field is not an integer and the handler reads it
BadScaleRead(r) ==
    /\ ~scale[r].ok
    /\ \/ route[r] = "upscale" /\ upload[r] \in {"undecodable", "valid"}
       \/ ProcessUpscale(r) /\ upload[r] = "valid"

\* C7, amended: 400 is answered exactly for a missing upload field, an empty
\* filename, or an unknown action on /process with a decodable upload; an
\* undecodable upload and a non-integer scale that is read are answered 500;
\* 500 is answered exactly when an exception was raised during handling or
\* the operation failed.
C7_StatusCodes ==
    \A r \in Req :
        Finished(r)
            => /\ resp[r].code = 400 <=> ClientError(r)
               /\ upload[r] = "undecodable" => resp[r].code = 500
               /\ BadScaleRead(r) => resp[r].code = 500
               /\ resp[r].code = 500 <=> (raised[r] # "none" \/ ProcessingFailed(r))
               /\ resp[r].code \in {200, 400, 500}

C7_Witness ==
    /\ \E r \in Req : pc[r] = "done" /\ upload[r] = "undecodable"
                      /\ raised[r] = "UnidentifiedImageError" /\ resp[r].code = 500
    /\ \E r \in Req : pc[r] = "done" /\ upload[r] = "valid" /\ ProcessUpscale(r)
                      /\ raised[r] = "ValueError" /\ resp[r].code = 500

\* C8: a failed delete of a temp file never changes the response: when the
\* operation succeeded and wrote its output file, the answer is 200.
C8_CleanupFailureSwallowed ==
    \A r \in Req :
        (Finished(r) /\ success[r] /\ Did(r, "write", OutputPath(uid[r])))
            => resp[r].code = 200

\* C9: the input and output paths of a request differ, no path is used by
\* two requests, every access of a request is to its own paths, and whether
\* a temp file of a request exists depends on that request's accesses alone.
C9_NoPathCollision ==
    /\ \A r \in Req : uid[r] # 0 => InputPath(uid[r]) # OutputPath(uid[r])
    /\ \A r1, r2 \in Req : r1 # r2 => OwnPaths(r1) \cap OwnPaths(r2) = {}
    /\ \A r \in Req : \A e \in Events(r) : e.path \in OwnPaths(r)
    /\ \A r \in Req : \A p \in OwnPaths(r) : p \in fs <=> ExistsAfter(log[r], p)
    /\ \A p \in fs : \E r \in Req : p \in OwnPaths(r)

C9_Witness ==
    \E r1, r2 \in Req :
        /\ r1 # r2
        /\ route[r1] = "process" /\ route[r2] = "upscale"
        /\ InputPath(uid[r1]) \in fs /\ OutputPath(uid[r1]) \in fs
        /\ InputPath(uid[r2]) \in fs /\ OutputPath(uid[r2]) \in fs

\* The temp files r created and deleted, by kind
Created(r) == {e.path[1] : e \in {x \in Events(r) : x.ev = "write"}}
Deleted(r) == {e.path[1] : e \in {x \in Events(r) : x.ev = "remove"}}

\* C10: /upscale and /process with action=upscale, given the same upload,
\* the same scale field and the same upscaler outcome, answer the same status
\* code and create, delete and leave behind the same temp files.
C10_LegacyRouteEquivalent ==
    \A r1, r2 \in Req :
        (/\ pc[r1] = "done" /\ pc[r2] = "done"
         /\ ProcessUpscale(r1) /\ route[r2] = "upscale"
         /\ upload[r1] = upload[r2]
         /\ scale[r1] = scale[r2]
         /\ outcome[r1] = outcome[r2])
            => /\ resp[r1].code = resp[r2].code
               /\ Created(r1) = Created(r2)
               /\ Deleted(r1) = Deleted(r2)
               /\ Remaining(r1) = Remaining(r2)

====
